---- MODULE Spec2Model ----
(***************************************************************************)
(* Model of gnina_tensorflow's autoencoder tooling:                        *)
(*   autoencoder/autoencoder_definitions.py  AutoEncoderBase.__init__ and  *)
(*        the masked loss functions,                                       *)
(*   autoencoder/calculate_encodings.py      calculate_encodings,          *)
(*   utilities/gnina_functions.py            process_batch.                *)
(*                                                                         *)
(* Spec      : an autoencoder is built, then process_batch and             *)
(*             calculate_encodings are run with it (single threaded).      *)
(* SpecLoss  : the loss functions applied to bounded tensors.              *)
(***************************************************************************)
EXTENDS Integers, Sequences, FiniteSets, TLC

VARIABLES
    pc,               \* position of the program
    ae,               \* the autoencoder object built by AutoEncoderBase.__init__
    pb,               \* the last process_batch call: arguments, effects, outcome
    predictCalls,     \* predict_on_batch calls issued on the autoencoder
    typesFile,        \* the lines of the types (index) file
    batch_size,       \* input_tensor.shape[0]
    epPos,            \* ExampleProvider: number of examples handed out so far
    requests,         \* number of e.next_batch calls of calculate_encodings
    inferences,       \* number of encoder.predict_on_batch calls of calculate_encodings
    paths,            \* {global_idx: (label, rec, lig)}
    total_size, iterations, iteration, batch_idx, remainder,
    current_rec,      \* receptor of the open group
    encodings,        \* the open group (list of (label, lig, encoding))
    encodings_numpy,  \* encodings of the batch in hand, by batch offset
    disk,             \* encodings_dir: file name -> serialised message
    flushed,          \* the write_encodings_to_disk calls so far, in order
    err,              \* the exception that ended the run, if any
    target, reconstruction,   \* tensors handed to the loss functions
    lossOut           \* values returned by the loss functions

pipeVars == <<typesFile, batch_size, epPos, requests, inferences, paths, total_size,
              iterations, iteration, batch_idx, remainder, current_rec,
              encodings, encodings_numpy, disk, flushed, err>>
lossVars == <<target, reconstruction, lossOut>>
vars == <<pc, ae, pb, predictCalls, pipeVars, lossVars>>

----------------------------------------------------------------------------
(* Bounds of the model *)

MaxTotal == 7       \* most lines in a types file
MaxBatch == 3       \* largest batch size
MaxElems == 2       \* most elements of a (flattened) tensor
MaxVal == 2         \* tensor entries range over 0..MaxVal

----------------------------------------------------------------------------
(* Types files.  A receptor path is <<directory, stem>> (the extension     *)
(* .gninatypes is left implicit); two of the receptors share their stem.   *)

Recs == {<<"d1", "a">>, <<"d2", "a">>, <<"d1", "b">>}
NoRec == <<"", "">>

\* A line "<label> <rec> <lig>".  The ligand of line i (0-based) is named by
\* its line, so that every record of a file is told apart.
Line(label, rec, i) == [label |-> label, rec |-> rec, lig |-> <<"lig", i>>]

\* The types files of the model: every sequence of receptors up to MaxTotal
\* lines (grouped or not, the empty file included); labels alternate.
TypesFiles ==
    UNION {{[i \in 1..n |-> Line(i % 2, rs[i], i - 1)] :
               rs \in [1..n -> Recs]} : n \in 0..MaxTotal}

BatchSizes == 1..MaxBatch

----------------------------------------------------------------------------
(* AutoEncoderBase.__init__ *)

Losses == {"mse", "unbalanced", "composite_mse"}

Unbuilt == [built |-> FALSE, loss |-> "", inputs |-> <<>>, outputs |-> <<>>,
            metrics |-> <<>>, compiled_loss |-> <<>>, added_losses |-> <<>>]

\* inputs = [self.input_image]; composite mse requires an extra weight input
AEInputs(loss) ==
    <<"input_image">> \o (IF loss = "composite_mse" THEN <<"frac">> ELSE <<>>)

\* (mutant) the composite branch tracks the masked mse terms only
AEMetricsByBranch(loss) ==
    IF loss = "composite_mse"
    THEN [reconstruction |-> <<"zero_mse", "nonzero_mse">>]
    ELSE [reconstruction |-> <<"mae", "nonzero_mae", "zero_mae", "zero_mse", "nonzero_mse">>]

\* metrics = {'reconstruction': [mae, nonzero_mae, zero_mae, zero_mse, nonzero_mse]}
AEMetrics(loss) ==
    [reconstruction |-> <<"mae", "nonzero_mae", "zero_mae", "zero_mse", "nonzero_mse">>]

\* the loss handed to compile(): none in the composite branch, otherwise
\* {'reconstruction': loss, 'encoding': None}
AECompiledLoss(loss) ==
    IF loss = "composite_mse" THEN <<>>
    ELSE <<<<"reconstruction", loss>>, <<"encoding", "None">>>>

\* self.add_loss(composite_mse(input_image, reconstruction, frac))
AEAddedLosses(loss) ==
    IF loss = "composite_mse" THEN <<"composite_mse">> ELSE <<>>

Build(loss) ==
    /\ pc = "unbuilt"
    /\ ae' = [built |-> TRUE, loss |-> loss,
              inputs |-> AEInputs(loss),
              outputs |-> <<"reconstruction", "encoding">>,
              metrics |-> AEMetrics(loss),
              compiled_loss |-> AECompiledLoss(loss),
              added_losses |-> AEAddedLosses(loss)]
    /\ pc' = "built"
    /\ UNCHANGED <<pb, predictCalls, pipeVars, lossVars>>

Range(s) == {s[i] : i \in DOMAIN s}

\* autoencoder.get_layer('frac') does not raise ValueError
HasLayer(model, name) == name \in Range(model.inputs)

\* predict_on_batch on a model built over len(inputs) input layers, handed
\* `given` arrays.  Keras is not part of the sources: a call whose arrays
\* match the input layers returns; for one that does not, both outcomes
\* (the call is rejected, the call returns) are kept.
PredictOutcomes(model, given) ==
    IF Len(given) = Len(model.inputs) THEN {"ok"} ELSE {"ok", "ValueError"}

----------------------------------------------------------------------------
(* process_batch *)

NoCall == [called |-> FALSE, train |-> FALSE, labels |-> FALSE,
           autoencoder |-> FALSE, effects |-> <<>>, result |-> ""]

\* The arrays process_batch hands to autoencoder.predict_on_batch
PBInputs(model) ==
    <<"grid">> \o (IF HasLayer(model, "frac") THEN <<"ratio">> ELSE <<>>)

\* (mutant) the labels are checked only once the batch has been fetched
ProcessBatchRunLateCheck(train, labels, autoencoder, aeOutcome) ==
    LET pre == <<"next_batch", "gmaker.forward">>
        enc == IF autoencoder THEN <<"autoencoder.predict_on_batch">> ELSE <<>>
    IN  IF train /\ ~labels
        THEN [effects |-> pre, result |-> "RuntimeError"]
        ELSE IF autoencoder /\ aeOutcome # "ok"
        THEN [effects |-> pre \o enc, result |-> aeOutcome]
        ELSE IF ~labels
        THEN [effects |-> pre \o enc \o <<"model.predict_on_batch">>,
              result |-> "predictions"]
        ELSE IF train
        THEN [effects |-> pre \o enc \o <<"extract_label", "model.train_on_batch">>,
              result |-> "loss"]
        ELSE [effects |-> pre \o enc \o <<"extract_label", "model.predict_on_batch">>,
              result |-> "labels, predictions"]

\* The effects of one call, in order, and its outcome.
\*   train       : the train argument
\*   labels      : labels_tensor is not None
\*   autoencoder : autoencoder is not None
\*   aeOutcome   : outcome of autoencoder.predict_on_batch, when it is called
ProcessBatchRun(train, labels, autoencoder, aeOutcome) ==
    IF train /\ ~labels
    THEN [effects |-> <<>>, result |-> "RuntimeError"]
    ELSE LET pre == <<"next_batch", "gmaker.forward">>
             enc == IF autoencoder THEN <<"autoencoder.predict_on_batch">> ELSE <<>>
         IN  IF autoencoder /\ aeOutcome # "ok"
             THEN [effects |-> pre \o enc, result |-> aeOutcome]
             ELSE IF ~labels
             THEN [effects |-> pre \o enc \o <<"model.predict_on_batch">>,
                   result |-> "predictions"]
             ELSE IF train
             THEN [effects |-> pre \o enc \o <<"extract_label", "model.train_on_batch">>,
                   result |-> "loss"]
             ELSE [effects |-> pre \o enc \o <<"extract_label", "model.predict_on_batch">>,
                   result |-> "labels, predictions"]

ProcessBatch(train, labels, autoencoder) ==
    /\ pc = "built"
    /\ \E aeOutcome \in PredictOutcomes(ae, PBInputs(ae)) :
         LET run == ProcessBatchRun(train, labels, autoencoder, aeOutcome)
         IN  /\ pb' = [called |-> TRUE, train |-> train, labels |-> labels,
                       autoencoder |-> autoencoder,
                       effects |-> run.effects, result |-> run.result]
             /\ predictCalls' =
                  IF "autoencoder.predict_on_batch" \in Range(run.effects)
                  THEN predictCalls \cup
                         {[by |-> "process_batch", inputs |-> PBInputs(ae)]}
                  ELSE predictCalls
    /\ UNCHANGED <<pc, ae, pipeVars, lossVars>>

----------------------------------------------------------------------------
(* calculate_encodings *)

\* get_paths: recs = set() is created and never added to
RecsSeen(lines, idx) == {}

\* get_paths raises RuntimeError('Types file must be grouped by receptor'):
\* on some line idx > 0, rec != current_rec and rec in recs, where
\* current_rec is the receptor of line 0 (lines are 1-based here)
GetPathsRaises(lines) ==
    \E idx \in 1..(Len(lines) - 1) :
        /\ lines[idx + 1].rec # lines[1].rec
        /\ lines[idx + 1].rec \in RecsSeen(lines, idx)

\* get_paths' return value: paths[idx] = (label, rec, lig)
GetPaths(lines) == [idx \in 0..(Len(lines) - 1) |-> lines[idx + 1]]

\* Path(rec).stem
Stem(rec) == rec[2]

\* fname = Path(rec).stem + '.bin', opened under encodings_dir
FileName(rec) == <<"encodings", Stem(rec), ".bin">>

FileNames == {FileName(r) : r \in Recs}
NoFile == [path |-> NoRec, ligand |-> <<>>]

\* The protein message write_encodings_to_disk builds from a group
Message(rec, group) ==
    [path |-> rec,
     ligand |-> [i \in 1..Len(group) |->
                   [path |-> group[i].lig, embedding |-> group[i].enc,
                    label |-> group[i].label]]]

\* write_encodings_to_disk(rec, encodings, encodings_dir): the files after it
WriteEncodingsToDisk(files, rec, group) ==
    [files EXCEPT ![FileName(rec)] = Message(rec, group)]

\* e.next_batch(batch_size) of a provider populated with `lines`, not
\* shuffled, that has handed out `pos` examples: the next batch_size lines,
\* wrapping round at the end of the file.  gmaker.forward and
\* encoder.predict_on_batch map example k of the batch to row k of
\* encodings_numpy; an encoding is named by the batch and row it is and by
\* the line (0-based) of the example it was computed from.
EncodeBatch(lines, pos, n, b) ==
    [k \in 0..(n - 1) |->
        [batch |-> b, row |-> k, line |-> (pos + k) % Len(lines)]]

\* (mutant) the iteration is not scaled by the batch size
GlobalIdxUnscaled(it, bs, k) == it + k

\* global_idx = iteration * batch_size + batch_idx
GlobalIdx(it, bs, k) == it * bs + k

\* the arrays calculate_encodings hands to encoder.predict_on_batch
CEInputs(model) == <<"grid">>

\* range(batch_size) in the loop over whole batches, range(remainder) after
Limit == IF pc = "batch" THEN batch_size ELSE remainder

\* Lines 83-98: set-up, up to the head of the loop over whole batches.
Start(lines, bs) ==
    /\ pc = "built"
    /\ ~pb.called
    /\ typesFile' = lines
    /\ batch_size' = bs
    /\ epPos' = 0
    /\ IF GetPathsRaises(lines)
       THEN /\ pc' = "error"
            /\ err' = "RuntimeError: Types file must be grouped by receptor"
            /\ UNCHANGED <<paths, total_size, iterations, current_rec>>
       ELSE /\ paths' = GetPaths(lines)
            /\ total_size' = Len(lines)
            /\ iterations' = Len(lines) \div bs
            /\ IF Len(lines) = 0
               THEN /\ pc' = "error"          \* paths[0]
                    /\ err' = "KeyError"
                    /\ UNCHANGED current_rec
               ELSE /\ pc' = "loop"
                    /\ current_rec' = lines[1].rec
                    /\ UNCHANGED err
    /\ UNCHANGED <<ae, pb, predictCalls, requests, inferences, iteration, batch_idx,
                   remainder, encodings, encodings_numpy, disk, flushed, lossVars>>

\* calculate_encodings is called on some types file with some batch size.
CalculateEncodings ==
    /\ pc = "built"
    /\ \E lines \in TypesFiles, bs \in BatchSizes : Start(lines, bs)

\* (mutant) no batch is fetched for an empty remainder
FetchBatchUnlessEmptyRemainder ==
    /\ pc = "loop"
    /\ IF iteration >= iterations /\ total_size % batch_size = 0
       THEN /\ remainder' = 0
            /\ batch_idx' = 0
            /\ pc' = "rem"
            /\ UNCHANGED <<requests, inferences, epPos, predictCalls,
                           encodings_numpy, err>>
       ELSE /\ requests' = requests + 1
            /\ inferences' = inferences + 1
            /\ epPos' = epPos + batch_size
            /\ predictCalls' = predictCalls \cup
                  {[by |-> "calculate_encodings", inputs |-> CEInputs(ae)]}
            /\ remainder' = IF iteration < iterations THEN remainder
                            ELSE total_size % batch_size
            /\ \E outcome \in PredictOutcomes(ae, CEInputs(ae)) :
                 IF outcome = "ok"
                 THEN /\ encodings_numpy' =
                           EncodeBatch(typesFile, epPos, batch_size, requests)
                      /\ batch_idx' = 0
                      /\ pc' = IF iteration < iterations THEN "batch" ELSE "rem"
                      /\ UNCHANGED err
                 ELSE /\ pc' = "error"
                      /\ err' = outcome
                      /\ UNCHANGED <<encodings_numpy, batch_idx>>
    /\ UNCHANGED <<ae, pb, typesFile, batch_size, paths, total_size, iterations,
                   iteration, current_rec, encodings, disk, flushed, lossVars>>

\* Lines 102-104 and 114-117: fetch a batch and run the encoder on it,
\* for the next whole batch or, after the last of them, for the remainder.
FetchBatch ==
    /\ pc = "loop"
    /\ requests' = requests + 1
    /\ inferences' = inferences + 1
    /\ epPos' = epPos + batch_size
    /\ predictCalls' = predictCalls \cup
                         {[by |-> "calculate_encodings", inputs |-> CEInputs(ae)]}
    /\ remainder' = IF iteration < iterations THEN remainder
                    ELSE total_size % batch_size
    /\ \E outcome \in PredictOutcomes(ae, CEInputs(ae)) :
         IF outcome = "ok"
         THEN /\ encodings_numpy' = EncodeBatch(typesFile, epPos, batch_size, requests)
              /\ batch_idx' = 0
              /\ pc' = IF iteration < iterations THEN "batch" ELSE "rem"
              /\ UNCHANGED err
         ELSE /\ pc' = "error"
              /\ err' = outcome
              /\ UNCHANGED <<encodings_numpy, batch_idx>>
    /\ UNCHANGED <<ae, pb, typesFile, batch_size, paths, total_size, iterations,
                   iteration, current_rec, encodings, disk, flushed, lossVars>>

\* (mutant) the record in hand is appended before the receptor test, so it is
\* written with the group it closes
FlushAfterAppend ==
    /\ pc \in {"batch", "rem"}
    /\ batch_idx < Limit
    /\ LET p == paths[GlobalIdx(iteration, batch_size, batch_idx)]
           group == Append(encodings,
                      [label |-> p.label, lig |-> p.lig, enc |-> encodings_numpy[batch_idx]])
       IN  /\ p.rec # current_rec
           /\ disk' = WriteEncodingsToDisk(disk, current_rec, group)
           /\ flushed' = Append(flushed, [rec |-> current_rec, group |-> group])
           /\ encodings' = <<>>
           /\ current_rec' = p.rec
    /\ batch_idx' = batch_idx + 1
    /\ UNCHANGED <<pc, ae, pb, predictCalls, typesFile, batch_size, epPos, requests,
                   inferences, paths, total_size, iterations, iteration, remainder,
                   encodings_numpy, err, lossVars>>

\* Lines 108-111 and 122-125: the record in hand belongs to another receptor
\* than the open group: write the group, clear it, move the receptor cursor.
Flush ==
    /\ pc \in {"batch", "rem"}
    /\ batch_idx < Limit
    /\ LET rec == paths[GlobalIdx(iteration, batch_size, batch_idx)].rec
       IN  /\ rec # current_rec
           /\ disk' = WriteEncodingsToDisk(disk, current_rec, encodings)
           /\ flushed' = Append(flushed, [rec |-> current_rec, group |-> encodings])
           /\ encodings' = <<>>
           /\ current_rec' = rec
    /\ UNCHANGED <<pc, ae, pb, predictCalls, typesFile, batch_size, epPos, requests,
                   inferences,
                   paths, total_size, iterations, iteration, batch_idx, remainder,
                   encodings_numpy, err, lossVars>>

\* Lines 112 and 126: append the record in hand to the open group.
AppendEncoding ==
    /\ pc \in {"batch", "rem"}
    /\ batch_idx < Limit
    /\ LET global_idx == GlobalIdx(iteration, batch_size, batch_idx)
           p == paths[global_idx]
       IN  /\ p.rec = current_rec
           /\ encodings' = Append(encodings,
                  [label |-> p.label, lig |-> p.lig, enc |-> encodings_numpy[batch_idx]])
    /\ batch_idx' = batch_idx + 1
    /\ UNCHANGED <<pc, ae, pb, predictCalls, typesFile, batch_size, epPos, requests,
                   inferences,
                   paths, total_size, iterations, iteration, remainder, current_rec,
                   encodings_numpy, disk, flushed, err, lossVars>>

\* (mutant) the open group is written and cleared at the end of every batch
NextIterationFlushing ==
    /\ pc = "batch"
    /\ batch_idx >= Limit
    /\ iteration' = iteration + 1
    /\ pc' = "loop"
    /\ disk' = WriteEncodingsToDisk(disk, current_rec, encodings)
    /\ flushed' = Append(flushed, [rec |-> current_rec, group |-> encodings])
    /\ encodings' = <<>>
    /\ UNCHANGED <<ae, pb, predictCalls, typesFile, batch_size, epPos, requests,
                   inferences,
                   paths, total_size, iterations, batch_idx, remainder, current_rec,
                   encodings_numpy, err, lossVars>>

\* Line 99: the loop over a whole batch's results is exhausted.
NextIteration ==
    /\ pc = "batch"
    /\ batch_idx >= Limit
    /\ iteration' = iteration + 1
    /\ pc' = "loop"
    /\ UNCHANGED <<ae, pb, predictCalls, typesFile, batch_size, epPos, requests,
                   inferences,
                   paths, total_size, iterations, batch_idx, remainder, current_rec,
                   encodings, encodings_numpy, disk, flushed, err, lossVars>>

\* (mutant) the group still open at the end is not written
FinishWithoutFlush ==
    /\ pc = "rem"
    /\ batch_idx >= Limit
    /\ pc' = "done"
    /\ UNCHANGED <<ae, pb, predictCalls, typesFile, batch_size, epPos, requests,
                   inferences,
                   paths, total_size, iterations, iteration, batch_idx, remainder,
                   current_rec, encodings, encodings_numpy, disk, flushed, err,
                   lossVars>>

\* Lines 128-129: after the remainder, write the group still open, if any.
Finish ==
    /\ pc = "rem"
    /\ batch_idx >= Limit
    /\ IF Len(encodings) # 0
       THEN /\ disk' = WriteEncodingsToDisk(disk, current_rec, encodings)
            /\ flushed' = Append(flushed, [rec |-> current_rec, group |-> encodings])
       ELSE UNCHANGED <<disk, flushed>>
    /\ pc' = "done"
    /\ UNCHANGED <<ae, pb, predictCalls, typesFile, batch_size, epPos, requests,
                   inferences,
                   paths, total_size, iterations, iteration, batch_idx, remainder,
                   current_rec, encodings, encodings_numpy, err, lossVars>>

----------------------------------------------------------------------------
(* The masked loss functions of autoencoder_definitions.py.  A tensor is the
   sequence of its elements (every function is elementwise up to a reduction
   over all elements).  A float is a fraction <<numerator, denominator>>;
   rounding is not modelled.  A division by zero gives what tf.divide gives:
   not-a-number for 0/0, an infinity otherwise. *)

NaN == <<0, 0>>
PlusInf == <<1, 0>>
MinusInf == <<-1, 0>>

IsNaN(x) == x = NaN
IsFinite(x) == x[2] # 0

\* tf.divide on two floats that hold whole numbers
Divide(a, b) ==
    IF b # 0 THEN <<a, b>>
    ELSE IF a = 0 THEN NaN ELSE IF a > 0 THEN PlusInf ELSE MinusInf

\* tf.math.multiply, tf.math.add and 1. - x on finite fractions
Multiply(x, y) == <<x[1] * y[1], x[2] * y[2]>>
Add(x, y) == <<x[1] * y[2] + y[1] * x[2], x[2] * y[2]>>
OneMinus(x) == <<x[2] - x[1], x[2]>>

\* tf.cast(<bool>, tf.float32)
Cast(b) == IF b THEN 1 ELSE 0

Abs(v) == IF v < 0 THEN -v ELSE v

RECURSIVE ReduceSumTo(_, _)
ReduceSumTo(x, n) == IF n = 0 THEN 0 ELSE x[n] + ReduceSumTo(x, n - 1)

\* tf.reduce_sum, tf.reduce_mean
ReduceSum(x) == ReduceSumTo(x, Len(x))
ReduceMean(x) == Divide(ReduceSum(x), Len(x))

\* (target - reconstruction) * mask
MaskedDifference(t, r, mask) == [i \in DOMAIN t |-> (t[i] - r[i]) * mask[i]]

nonzero_mse(t, r) ==
    LET mask == [i \in DOMAIN t |-> Cast(t[i] # 0)]
        masked_difference == MaskedDifference(t, r, mask)
    IN  ReduceMean([i \in DOMAIN t |-> masked_difference[i] * masked_difference[i]])

zero_mse(t, r) ==
    LET mask == [i \in DOMAIN t |-> Cast(t[i] = 0)]
        masked_difference == MaskedDifference(t, r, mask)
    IN  ReduceMean([i \in DOMAIN t |-> masked_difference[i] * masked_difference[i]])

\* (mutant) the two weights are swapped
composite_mse_swapped(t, r, ratio) ==
    LET frac == Divide(ratio, 1 + ratio)
    IN  Add(Multiply(OneMinus(frac), nonzero_mse(t, r)),
            Multiply(frac, zero_mse(t, r)))

composite_mse(t, r, ratio) ==
    LET frac == Divide(ratio, 1 + ratio)
    IN  Add(Multiply(frac, nonzero_mse(t, r)),
            Multiply(OneMinus(frac), zero_mse(t, r)))

\* (mutant) the mean is taken over all elements, as in zero_mse
zero_mae_over_all(t, r) ==
    LET mask == [i \in DOMAIN t |-> Cast(t[i] = 0)]
        masked_diff == MaskedDifference(t, r, mask)
        abs_diff == [i \in DOMAIN t |-> Abs(masked_diff[i])]
    IN  Divide(ReduceSum(abs_diff), Len(t))

zero_mae(t, r) ==
    LET mask == [i \in DOMAIN t |-> Cast(t[i] = 0)]
        masked_diff == MaskedDifference(t, r, mask)
        abs_diff == [i \in DOMAIN t |-> Abs(masked_diff[i])]
    IN  Divide(ReduceSum(abs_diff), ReduceSum(mask))

nonzero_mae(t, r) ==
    LET mask == [i \in DOMAIN t |-> 1 - Cast(t[i] = 0)]
        mask_sum == ReduceSum(mask)
        masked_diff == MaskedDifference(t, r, mask)
        abs_diff == [i \in DOMAIN t |-> Abs(masked_diff[i])]
    IN  Divide(ReduceSum(abs_diff), mask_sum)

\* Tensors of the model, and the ratios the functions are applied with
Tensors == UNION {[1..n -> 0..MaxVal] : n \in 1..MaxElems}
Ratios == {0, 1, 3, 100}

NoLoss == [fn |-> "", ratio |-> 0, value |-> <<0, 1>>]

CallNonzeroMse ==
    /\ pc = "loss"
    /\ lossOut' = [fn |-> "nonzero_mse", ratio |-> 0,
                   value |-> nonzero_mse(target, reconstruction)]
    /\ UNCHANGED <<pc, ae, pb, predictCalls, pipeVars, target, reconstruction>>

CallZeroMse ==
    /\ pc = "loss"
    /\ lossOut' = [fn |-> "zero_mse", ratio |-> 0,
                   value |-> zero_mse(target, reconstruction)]
    /\ UNCHANGED <<pc, ae, pb, predictCalls, pipeVars, target, reconstruction>>

CallCompositeMse(ratio) ==
    /\ pc = "loss"
    /\ lossOut' = [fn |-> "composite_mse", ratio |-> ratio,
                   value |-> composite_mse(target, reconstruction, ratio)]
    /\ UNCHANGED <<pc, ae, pb, predictCalls, pipeVars, target, reconstruction>>

CallZeroMae ==
    /\ pc = "loss"
    /\ lossOut' = [fn |-> "zero_mae", ratio |-> 0,
                   value |-> zero_mae(target, reconstruction)]
    /\ UNCHANGED <<pc, ae, pb, predictCalls, pipeVars, target, reconstruction>>

CallNonzeroMae ==
    /\ pc = "loss"
    /\ lossOut' = [fn |-> "nonzero_mae", ratio |-> 0,
                   value |-> nonzero_mae(target, reconstruction)]
    /\ UNCHANGED <<pc, ae, pb, predictCalls, pipeVars, target, reconstruction>>

----------------------------------------------------------------------------
(* The program: build an autoencoder, then use it. *)

Init ==
    /\ pc = "unbuilt"
    /\ ae = Unbuilt
    /\ pb = NoCall
    /\ predictCalls = {}
    /\ typesFile = <<>>
    /\ batch_size = 1
    /\ epPos = 0
    /\ requests = 0
    /\ inferences = 0
    /\ paths = <<>>
    /\ total_size = 0
    /\ iterations = 0
    /\ iteration = 0
    /\ batch_idx = 0
    /\ remainder = 0
    /\ current_rec = NoRec
    /\ encodings = <<>>
    /\ encodings_numpy = <<>>
    /\ disk = [f \in FileNames |-> NoFile]
    /\ flushed = <<>>
    /\ err = ""
    /\ target = <<>>
    /\ reconstruction = <<>>
    /\ lossOut = NoLoss

Next ==
    \/ \E loss \in Losses : Build(loss)
    \/ \E train \in BOOLEAN, labels \in BOOLEAN, autoencoder \in BOOLEAN :
          ProcessBatch(train, labels, autoencoder)
    \/ CalculateEncodings
    \/ FetchBatch
    \/ Flush
    \/ AppendEncoding
    \/ NextIteration
    \/ Finish

Spec == Init /\ [][Next]_vars

(* The loss functions applied to a target and a reconstruction of one shape *)

InitLoss ==
    /\ pc = "loss"
    /\ ae = Unbuilt
    /\ pb = NoCall
    /\ predictCalls = {}
    /\ typesFile = <<>>
    /\ batch_size = 1
    /\ epPos = 0
    /\ requests = 0
    /\ inferences = 0
    /\ paths = <<>>
    /\ total_size = 0
    /\ iterations = 0
    /\ iteration = 0
    /\ batch_idx = 0
    /\ remainder = 0
    /\ current_rec = NoRec
    /\ encodings = <<>>
    /\ encodings_numpy = <<>>
    /\ disk = [f \in FileNames |-> NoFile]
    /\ flushed = <<>>
    /\ err = ""
    /\ target \in Tensors
    /\ reconstruction \in {r \in Tensors : Len(r) = Len(target)}
    /\ lossOut = NoLoss

NextLoss ==
    \/ CallNonzeroMse
    \/ CallZeroMse
    \/ \E ratio \in Ratios : CallCompositeMse(ratio)
    \/ CallZeroMae
    \/ CallNonzeroMae

SpecLoss == InitLoss /\ [][NextLoss]_vars

----------------------------------------------------------------------------
(* Vocabulary of the properties of calculate_encodings *)

\* The types file is grouped by receptor: no receptor comes back after
\* another one has been seen.
Grouped(lines) ==
    \A i, j, k \in 1..Len(lines) :
        (i < j /\ j < k /\ lines[i].rec = lines[k].rec) => lines[j].rec = lines[i].rec

\* The lines (1-based) that open a maximal run of equal receptors
RunStarts(lines) ==
    {i \in 1..Len(lines) : i = 1 \/ lines[i].rec # lines[i - 1].rec}

\* The last line of the run that line i opens
RunEnd(lines, i) ==
    CHOOSE j \in i..Len(lines) :
        /\ \A m \in i..j : lines[m].rec = lines[i].rec
        /\ j = Len(lines) \/ lines[j + 1].rec # lines[i].rec

\* The k-th smallest element of a set of numbers
Kth(S, k) == CHOOSE x \in S : Cardinality({y \in S : y < x}) = k - 1

\* The maximal runs of a file, in file order: receptor and (label, lig) list
MaximalRuns(lines) ==
    [g \in 1..Cardinality(RunStarts(lines)) |->
        LET i == Kth(RunStarts(lines), g)
        IN  [rec |-> lines[i].rec,
             records |-> [m \in 1..(RunEnd(lines, i) - i + 1) |->
                            [label |-> lines[i + m - 1].label,
                             lig |-> lines[i + m - 1].lig]]]]

\* The flushed groups, without the encodings
FlushedRecords ==
    [g \in 1..Len(flushed) |->
        [rec |-> flushed[g].rec,
         records |-> [m \in 1..Len(flushed[g].group) |->
                        [label |-> flushed[g].group[m].label,
                         lig |-> flushed[g].group[m].lig]]]]

\* Positions <<g, m>> of the entries of the flushed groups
FlushedPositions ==
    UNION {{<<g, m>> : m \in 1..Len(flushed[g].group)} : g \in 1..Len(flushed)}

\* Where record idx (0-based) of the file is found among the flushed groups
PositionsOf(idx) ==
    {q \in FlushedPositions :
        /\ flushed[q[1]].group[q[2]].lig = typesFile[idx + 1].lig
        /\ flushed[q[1]].group[q[2]].label = typesFile[idx + 1].label
        /\ flushed[q[1]].rec = typesFile[idx + 1].rec}

\* First line (0-based) on which a receptor appears
FirstLine(rec) == CHOOSE i \in 0..(Len(typesFile) - 1) :
                     /\ typesFile[i + 1].rec = rec
                     /\ \A j \in 0..(i - 1) : typesFile[j + 1].rec # rec

Complete == pc = "done"

----------------------------------------------------------------------------
(* C1: after a complete run over a types file grouped by receptor (at least
   one line, any batch size), every record is found in exactly one flushed
   group (that of its receptor), the records of a group are in file order,
   and the groups are flushed in the order in which their receptors first
   appear in the file. *)
C1_EveryRecordFlushedOnceInOrder ==
    (Complete /\ Grouped(typesFile) /\ total_size >= 1) =>
        /\ \A idx \in 0..(total_size - 1) : Cardinality(PositionsOf(idx)) = 1
        /\ Cardinality(FlushedPositions) = total_size
        /\ \A g \in 1..Len(flushed) : \A m, n \in 1..Len(flushed[g].group) :
              m < n => flushed[g].group[m].lig[2] < flushed[g].group[n].lig[2]
        /\ \A g, h \in 1..Len(flushed) :
              g < h => FirstLine(flushed[g].rec) < FirstLine(flushed[h].rec)

\* A complete run in which a receptor's records span batches, a batch spans
\* two receptors, and the last group is flushed after the remainder
C1_Witness ==
    /\ Complete /\ Grouped(typesFile)
    /\ total_size = 5 /\ batch_size = 2
    /\ Len(flushed) = 3
    /\ Len(flushed[1].group) = 3

(* C2: a types file in which a receptor comes back after another one (such
   as receptors A, B, A) makes the run fail with the grouping error while
   the file is parsed, before any group is flushed. *)
C2_UngroupedFileAborts ==
    (pc \notin {"unbuilt", "built"} /\ ~Grouped(typesFile)) =>
        /\ pc = "error"
        /\ err = "RuntimeError: Types file must be grouped by receptor"
        /\ flushed = <<>>

(* C3: the flushed groups do not depend on the batch size: whatever the batch
   size, a complete run over a grouped file flushes the maximal runs of
   consecutive lines with equal receptor, in file order. *)
C3_GroupsAreMaximalRuns ==
    (Complete /\ Grouped(typesFile)) => FlushedRecords = MaximalRuns(typesFile)

\* Receptors A,A,A,B,B,C with batch size 2: groups of 3, 2 and 1 records
C3_Witness ==
    /\ Complete
    /\ batch_size = 2
    /\ Len(typesFile) = 6
    /\ [i \in 1..6 |-> typesFile[i].rec] =
          <<<<"d1", "a">>, <<"d1", "a">>, <<"d1", "a">>,
            <<"d1", "b">>, <<"d1", "b">>, <<"d2", "a">>>>
    /\ [g \in 1..Len(flushed) |-> Len(flushed[g].group)] = <<3, 2, 1>>

\* The entries appended so far: those of the flushed groups and of the open one
Emitted ==
    {flushed[q[1]].group[q[2]] : q \in FlushedPositions} \cup Range(encodings)

\* The (batch, row) results a run over total records with batch size bs is to
\* consume: every row of the first total \div bs batches, and the first
\* total % bs rows of the batch after them
ToConsume(total, bs) ==
    {<<i, k>> : i \in 0..((total \div bs) - 1), k \in 0..(bs - 1)} \cup
    {<<total \div bs, k>> : k \in 0..((total % bs) - 1)}

(* C4: row k of batch i is paired with the record at global index
   i*batch_size + k (and was computed from that line of the file); a complete
   run consumes every row of the first total \div batch_size batches and the
   first total % batch_size rows of the next one, and emits total records. *)
C4_RowsPairedWithRecords ==
    /\ \A e \in Emitted :
          /\ e.lig[2] = e.enc.batch * batch_size + e.enc.row
          /\ e.enc.line = e.lig[2]
          /\ e.lig = typesFile[e.lig[2] + 1].lig
          /\ e.label = typesFile[e.lig[2] + 1].label
    /\ (Complete /\ total_size >= 1) =>
          /\ {<<flushed[q[1]].group[q[2]].enc.batch, flushed[q[1]].group[q[2]].enc.row>> :
                 q \in FlushedPositions} = ToConsume(total_size, batch_size)
          /\ Cardinality(FlushedPositions) = total_size

\* 7 records with batch size 3: two whole batches, then 1 record of the
\* remainder batch, 7 records emitted
C4_Witness ==
    /\ Complete
    /\ total_size = 7 /\ batch_size = 3
    /\ iterations = 2 /\ remainder = 1
    /\ Cardinality(FlushedPositions) = 7

\* The receptors of a file
RecsOf(lines) == {lines[i].rec : i \in 1..Len(lines)}

(* C5: after a complete run over a grouped file there is exactly one output
   file per distinct receptor path, encodings/<stem>.bin, and it holds that
   receptor's path and its whole group in order; two receptor paths never
   share a file. *)
C5_OneFilePerReceptor ==
    (Complete /\ Grouped(typesFile)) =>
        /\ \A g \in 1..Len(flushed) :
              disk[FileName(flushed[g].rec)] = Message(flushed[g].rec, flushed[g].group)
        /\ Cardinality({f \in FileNames : disk[f] # NoFile}) =
              Cardinality(RecsOf(typesFile))

----------------------------------------------------------------------------
(* C6: process_batch called with train == True and no labels tensor fails
   with the missing-labels error before anything else happens: no batch is
   requested, the grid maker is not run, neither the model nor the
   autoencoder is invoked. *)
C6_MissingLabelsFailsBeforeAnyEffect ==
    (pb.called /\ pb.train /\ ~pb.labels) =>
        /\ pb.result = "RuntimeError"
        /\ pb.effects = <<>>

C6_Witness ==
    /\ pb.called /\ pb.train /\ ~pb.labels /\ pb.autoencoder
    /\ pb.result = "RuntimeError"

\* The five functions the claim calls the Masked Loss Family
MaskedLossFamily ==
    {"nonzero_mse", "zero_mse", "nonzero_mae", "zero_mae", "composite_mse"}

(* C9 as stated: whatever the loss, a built autoencoder tracks the five
   functions nonzero_mse, zero_mse, nonzero_mae, zero_mae and composite_mse
   as metrics on the reconstruction output. *)
C9_TracksMaskedLossFamily ==
    ae.built => MaskedLossFamily \subseteq Range(ae.metrics.reconstruction)

(* C9 as amended: whatever the loss, a built autoencoder tracks exactly the
   five functions mae, nonzero_mae, zero_mae, zero_mse and nonzero_mse as
   metrics, on the reconstruction output only; composite_mse is not among
   them, and the set is the same in the composite branch as elsewhere. *)
C9_TracksSameFiveMetrics ==
    ae.built =>
        /\ DOMAIN ae.metrics = {"reconstruction"}
        /\ Range(ae.metrics.reconstruction) =
              {"mae", "nonzero_mae", "zero_mae", "zero_mse", "nonzero_mse"}
        /\ Len(ae.metrics.reconstruction) = 5

\* An autoencoder built in the composite branch
C9_Witness ==
    /\ ae.built /\ ae.loss = "composite_mse"
    /\ ae.added_losses = <<"composite_mse">>

(* C10: every inference call on the autoencoder supplies a ratio with the
   grid batch when the autoencoder has the 'frac' input, and the grid batch
   alone when it has not, in calculate_encodings as in process_batch. *)
C10_RatioSuppliedIffFracInput ==
    \A c \in predictCalls :
        c.inputs = IF HasLayer(ae, "frac") THEN <<"grid", "ratio">> ELSE <<"grid">>

----------------------------------------------------------------------------
(* Vocabulary of the properties of the loss functions *)

\* Elements of the target that are zero / that are not
ZeroAt(t) == {i \in DOMAIN t : t[i] = 0}
NonzeroAt(t) == {i \in DOMAIN t : t[i] # 0}

RECURSIVE SumOver(_, _)
SumOver(S, f) ==
    IF S = {} THEN 0
    ELSE LET i == CHOOSE j \in S : TRUE IN f[i] + SumOver(S \ {i}, f)

\* Squared and absolute error of the reconstruction, element by element
SqErr == [i \in DOMAIN target |->
            (target[i] - reconstruction[i]) * (target[i] - reconstruction[i])]
AbsErr == [i \in DOMAIN target |-> Abs(target[i] - reconstruction[i])]

\* Equality of fractions
SameValue(x, y) == x[2] # 0 /\ y[2] # 0 /\ x[1] * y[2] = y[1] * x[2]

(* C7: for ratio in {0, 1, 3, 100}, composite_mse is w*nonzero_mse +
   (1-w)*zero_mse with w = ratio/(1+ratio), each mse term being the squared
   error summed over its part of the target and divided by the number of
   all elements:  composite * (1+ratio) * N  =  ratio * SSE(target # 0) +
   SSE(target = 0);  with ratio 0 it is zero_mse alone. *)
C7_CompositeIsWeightedSum ==
    lossOut.fn = "composite_mse" =>
        LET N == Len(target)
            sse_nonzero == SumOver(NonzeroAt(target), SqErr)
            sse_zero == SumOver(ZeroAt(target), SqErr)
        IN  /\ lossOut.ratio \in Ratios
            /\ SameValue(lossOut.value,
                   <<lossOut.ratio * sse_nonzero + sse_zero, (1 + lossOut.ratio) * N>>)
            /\ lossOut.ratio = 0 => SameValue(lossOut.value, <<sse_zero, N>>)

\* composite_mse with ratio 3 on a target with zero and non-zero entries,
\* both parts reconstructed with unequal error
C7_Witness ==
    /\ lossOut.fn = "composite_mse" /\ lossOut.ratio = 3
    /\ ZeroAt(target) # {} /\ NonzeroAt(target) # {}
    /\ SumOver(NonzeroAt(target), SqErr) > SumOver(ZeroAt(target), SqErr)
    /\ SumOver(ZeroAt(target), SqErr) > 0

(* C8: nonzero_mae returns not-a-number exactly when the target has no
   non-zero entry, zero_mae exactly when it has no zero entry; otherwise the
   value is finite, the absolute error summed over the masked elements
   divided by their number. *)
C8_MaeNaNIffMaskEmpty ==
    /\ lossOut.fn = "nonzero_mae" =>
          /\ IsNaN(lossOut.value) <=> NonzeroAt(target) = {}
          /\ NonzeroAt(target) # {} =>
                SameValue(lossOut.value,
                    <<SumOver(NonzeroAt(target), AbsErr), Cardinality(NonzeroAt(target))>>)
    /\ lossOut.fn = "zero_mae" =>
          /\ IsNaN(lossOut.value) <=> ZeroAt(target) = {}
          /\ ZeroAt(target) # {} =>
                SameValue(lossOut.value,
                    <<SumOver(ZeroAt(target), AbsErr), Cardinality(ZeroAt(target))>>)

\* zero_mae of a target without a zero entry, wrongly reconstructed
C8_Witness ==
    /\ lossOut.fn = "zero_mae"
    /\ ZeroAt(target) = {} /\ Len(target) = 2
    /\ target # reconstruction
    /\ IsNaN(lossOut.value)

----------------------------------------------------------------------------
\* Number of entries appended so far
EmittedCount == Cardinality(FlushedPositions) + Len(encodings)

\* Receptor of the record at a global index
RecAt(idx) == typesFile[idx + 1].rec

(* C11: results are applied strictly one after the other.  Every step that
   appends a record appends the one whose global index follows all those
   appended before, to an open group of its own receptor, and writes nothing;
   every flush caused by a change of receptor writes the old group whole,
   clears the accumulator and moves the receptor cursor to the record in
   hand while that record is not yet appended; and a batch is requested only
   when all rows of the batches requested before have been applied. *)
C11_AppliedStrictlyInOrder ==
    [][ /\ Len(encodings') = Len(encodings) + 1 =>
              LET e == encodings'[Len(encodings')]
              IN  /\ e.lig[2] = EmittedCount
                  /\ \A x \in Emitted : x.lig[2] < e.lig[2]
                  /\ \A x \in Range(encodings') : RecAt(x.lig[2]) = current_rec
                  /\ current_rec' = current_rec
                  /\ flushed' = flushed
        /\ (flushed' # flushed /\ pc' # "done") =>
              /\ flushed' = Append(flushed, [rec |-> current_rec, group |-> encodings])
              /\ \A x \in Range(encodings) : RecAt(x.lig[2]) = current_rec
              /\ encodings' = <<>>
              /\ current_rec' = RecAt(EmittedCount)
              /\ current_rec' # current_rec
              /\ EmittedCount' = EmittedCount
              /\ batch_idx' = batch_idx
        /\ requests' # requests =>
              /\ requests' = requests + 1
              /\ EmittedCount = requests * batch_size
      ]_vars

\* In the middle of the second batch a change of receptor has just flushed
\* the old group: the accumulator is empty, the record in hand not appended
C11_Witness ==
    /\ pc = "batch" /\ requests = 2
    /\ batch_idx > 0 /\ batch_idx < batch_size
    /\ Len(flushed) >= 1 /\ encodings = <<>>
    /\ current_rec = RecAt(EmittedCount)
    /\ Grouped(typesFile)

\* The entries taken from the rows of a batch (batches are numbered from 0)
EmittedFrom(b) == {e \in Emitted : e.enc.batch = b}

(* C12: a complete run requests total \div batch_size + 1 batches and runs
   the encoder on each of them, also when total % batch_size = 0; in that
   case no row of the last batch is appended to a group, and while that
   batch is in hand nothing is flushed but the group left open at the end. *)
C12_OneBatchAfterTheWholeOnes ==
    /\ [](Complete =>
            /\ requests = (total_size \div batch_size) + 1
            /\ inferences = requests
            /\ \A b \in 0..(requests - 1) :
                  EmittedFrom(b) # {} \/ (b = requests - 1 /\ total_size % batch_size = 0)
            /\ total_size % batch_size = 0 =>
                  EmittedFrom(total_size \div batch_size) = {})
    /\ [][ (pc = "rem" /\ total_size % batch_size = 0) =>
              /\ encodings' = encodings
              /\ flushed' # flushed =>
                    /\ pc' = "done"
                    /\ flushed' = Append(flushed, [rec |-> current_rec, group |-> encodings])
         ]_vars

\* 6 records with batch size 3: two whole batches and a third, unused batch
C12_Witness ==
    /\ Complete
    /\ total_size = 6 /\ batch_size = 3
    /\ requests = 3 /\ inferences = 3
    /\ remainder = 0
    /\ EmittedFrom(2) = {}

\* The entries of the flushed groups
FlushedEntries == {flushed[q[1]].group[q[2]] : q \in FlushedPositions}

(* C13: for every types file, the empty one included, and every batch size,
   calculate_encodings ends normally with everything appended flushed; for
   the empty file no group is flushed and no file written; and no empty
   group is ever flushed. *)
C13_EndsNormallyFullyFlushed ==
    /\ pc # "error"
    /\ Complete => Range(encodings) \subseteq FlushedEntries
    /\ (Complete /\ total_size = 0) =>
          /\ flushed = <<>>
          /\ \A f \in FileNames : disk[f] = NoFile
    /\ \A g \in 1..Len(flushed) : flushed[g].group # <<>>

====
